---- MODULE Spec2Model ----
(***************************************************************************)
(* Copycat: the bond structure (copycat/bond.py) and the correspondence    *)
(* codelets (copycat/coderack/codelets/correspondence.py).                 *)
(*                                                                         *)
(* Two specifications share the module:                                    *)
(*   SpecBond  Bond.__init__ and the bond's queries, over every pair of     *)
(*             endpoint objects of a string of bounded length;             *)
(*   Spec      the four correspondence codelets run one at a time against  *)
(*             a shared workspace.                                         *)
(***************************************************************************)
EXTENDS Integers, FiniteSets, Sequences, TLC

\* Longest string the bond specification builds bonds in.
MaxStrLen == 3
\* Correspondences the scouts may propose in one behaviour.
MaxCorr == 1

None == "None"

VARIABLES
    \* ---- bond.py ----
    string_length,              \* bond.string.length
    bond,                       \* the Bond object last constructed
    result,                     \* the last call of a method of bond
    \* ---- the workspace the codelets run against ----
    groups,                     \* built groups (they are workspace objects)
    bonds,                      \* built bonds
    rule,                       \* TRUE iff a rule is built
    corr,                       \* correspondence objects: their fields, by id
    proposed_correspondences,   \* the workspace's proposed correspondences
    correspondences,            \* the workspace's built correspondences
    coderack,                   \* codelets posted and not yet run
    last                        \* what the last codelet run did

vars == <<string_length, bond, result, groups, bonds, rule, corr,
          proposed_correspondences, correspondences, coderack, last>>

bondVars == <<string_length, bond, result>>
wsVars == <<groups, bonds, rule, corr, proposed_correspondences,
            correspondences, coderack, last>>

(***************************************************************************)
(*                              bond.py                                    *)
(***************************************************************************)

\* A workspace object of a string of length len: a letter at one position or
\* a group over an interval of positions.
StringObjects(len) ==
    UNION { { [left_string_position |-> l, right_string_position |-> r,
               kind |-> IF l = r THEN "letter" ELSE "group"] :
                r \in l..(len - 1) } : l \in 0..(len - 1) }

BondCategories == {"sameness", "successor", "predecessor"}
BondFacets == {"letter_category", "length"}

Min(a, b) == IF a < b THEN a ELSE b
Max(a, b) == IF a < b THEN b ELSE a

\* self.direction_category (bond.py 27-32)
DirectionCategoryLeftFlipped(from_object, to_object, bond_category) ==
    IF bond_category # "sameness"
    THEN IF from_object.left_string_position > to_object.left_string_position
         THEN "left" ELSE "right"
    ELSE None

DirectionCategory(from_object, to_object, bond_category) ==
    IF bond_category # "sameness"
    THEN IF from_object.left_string_position < to_object.left_string_position
         THEN "left" ELSE "right"
    ELSE None

\* self.left_object, self.right_object (bond.py 41-46)
LeftRightObjectsUnordered(from_object, to_object) ==
    [left_object |-> from_object, right_object |-> to_object]

LeftRightObjects(from_object, to_object) ==
    IF from_object.left_string_position < to_object.left_string_position
    THEN [left_object |-> from_object, right_object |-> to_object]
    ELSE [left_object |-> to_object, right_object |-> from_object]

\* self.left_string_position (bond.py 34-35)
LeftStringPosition(from_object, to_object) ==
    Min(from_object.left_string_position, to_object.left_string_position)

\* self.right_string_position (bond.py 36-37): the code takes min, as for the
\* left position.
RightStringPosition(from_object, to_object) ==
    Min(from_object.right_string_position, to_object.right_string_position)

\* Bond.__init__
NewBond(from_object, to_object, bond_category, bond_facet) ==
    LET lr == LeftRightObjects(from_object, to_object) IN
    [from_object |-> from_object,
     to_object |-> to_object,
     structure_category |-> "bond",
     bond_category |-> bond_category,
     direction_category |->
         DirectionCategory(from_object, to_object, bond_category),
     left_string_position |-> LeftStringPosition(from_object, to_object),
     right_string_position |-> RightStringPosition(from_object, to_object),
     bond_facet |-> bond_facet,
     left_object |-> lr.left_object,
     right_object |-> lr.right_object]

\* Bond.is_leftmost_in_string
is_leftmost_in_string(b) == b.left_string_position = 0

\* Bond.is_rightmost_in_string: the code compares with 1 - length.
is_rightmost_in_string(b, len) == b.right_string_position = 1 - len

\* No Bond object has been constructed yet.
NoBond == [structure_category |-> "none"]

\* A bond that belongs to no group (self.group is None).
NoGroup == [present |-> FALSE, total_strength |-> 0]

\* The correspondence of the object at one end of a bond, as
\* get_incompatible_correspondences reads it.
\*   correspondence        the object has one (its name), or None
\*   has_position_mapping  it has a string-position-category mapping
\*   other_edge            where its other object is in the other string
\*   other_bond            that object's bond on the inner side
\*   incompatible          is_incompatible_concept_mapping of the two mappings
EndRelation(correspondence, has_position_mapping, other_edge, other_bond, incompatible) ==
    [correspondence |-> correspondence,
     has_position_mapping |-> has_position_mapping,
     other_edge |-> other_edge, other_bond |-> other_bond,
     incompatible |-> incompatible]

NoRelation == EndRelation(None, FALSE, "middle", "none", FALSE)

\* The bonds attached to the two objects of a bond.
Attached(left_left, left_right, right_left, right_right) ==
    [left_left |-> left_left, left_right |-> left_right,
     right_left |-> right_left, right_right |-> right_right]

NoAttached == Attached(None, None, None, None)

\* The record of a call of a method of bond: what it was called with beyond
\* the bond, and how it ended ("value", "none" for a bare return, "fault").
BondResult(method, outcome, value, items) ==
    [method |-> method, outcome |-> outcome, value |-> value, items |-> items,
     association |-> 0, group |-> NoGroup,
     left |-> NoRelation, right |-> NoRelation, attached |-> NoAttached,
     left_neighbors |-> {}]

NoResult == BondResult(None, None, 0, {})

BondConstructed == bond.structure_category = "bond"

\* The workspace variables while only bonds are constructed.
WorkspaceIdle ==
    /\ groups = {}
    /\ bonds = {}
    /\ rule = FALSE
    /\ corr = <<>>
    /\ proposed_correspondences = {}
    /\ correspondences = {}
    /\ coderack = {}
    /\ last = [codelet |-> None, outcome |-> None]

InitBond ==
    /\ string_length \in 1..MaxStrLen
    /\ bond = NoBond
    /\ result = NoResult
    /\ WorkspaceIdle

\* Bond(state, from_object, to_object, bond_category, bond_facet, ...): a
\* behaviour constructs one Bond object and then calls its methods.
ConstructBond ==
    /\ ~BondConstructed
    /\ \E from_object \in StringObjects(string_length),
       to_object \in StringObjects(string_length),
       bond_category \in BondCategories,
       bond_facet \in BondFacets :
        /\ bond' = NewBond(from_object, to_object, bond_category, bond_facet)
        /\ result' = NoResult
        /\ UNCHANGED <<string_length, wsVars>>

\* The names bond.py binds at module level (bond.py 17-19); util and Mapping
\* are not among them.
BondModuleNames == {"Structure", "Bond"}

\* The names bound in Bond.happiness (bond.py 219).
HappinessNames == {"self"}

\* The operators Python accepts between the two sides of a comparison.
ComparisonOperators == {"==", "!=", "<", "<=", ">", ">=", "is", "in"}

\* The operator bond.py 199 writes between bond_facet.name and the string.
FacetTestOperator == "="

\* Whether Python accepts bond.py 199.
FacetTestCompiles == FacetTestOperator \in ComparisonOperators

\* bond_category.bond_degree_of_assocition()
Associations == {0, 45, 50, 60, 100}

\* bond.py 194-197, in tenths
MemberCompatibilityFactor(b) ==
    IF b.from_object.kind = b.to_object.kind THEN 10 ELSE 7

\* bond.py 199-202, in tenths
BondFacetFactor(b) == IF b.bond_facet = "letter_category" THEN 10 ELSE 7

\* The products factor * association that are a tie (x.5) as real numbers and
\* fall just below it as the floating-point numbers Python multiplies.
FloatBelowTie(hundredths, association) ==
    \/ hundredths = 70 /\ association \in {45, 85}
    \/ hundredths = 49 /\ association = 50

\* round() of hundredths/100 * association as Python computes it: ties away
\* from zero, on the floating-point product.
RoundProduct(hundredths, association) ==
    LET p == hundredths * association
        q == p \div 100
        r == p % 100
    IN  IF r > 50 \/ (r = 50 /\ ~FloatBelowTie(hundredths, association))
        THEN q + 1 ELSE q

\* bond.py 206-208
InternalStrength(b, association) ==
    Min(100, RoundProduct(MemberCompatibilityFactor(b) * BondFacetFactor(b),
                          association))

\* Bond.update_internal_strength
update_internal_strength(b, association) ==
    IF ~FacetTestCompiles
    THEN [BondResult("update_internal_strength", "fault", 0, {})
            EXCEPT !.association = association]
    ELSE [BondResult("update_internal_strength", "value",
                     InternalStrength(b, association), {})
            EXCEPT !.association = association]

UpdateInternalStrength ==
    /\ BondConstructed
    /\ \E association \in Associations :
          result' = update_internal_strength(bond, association)
    /\ UNCHANGED <<string_length, bond, wsVars>>

\* The groups a bond may belong to: none, or a group with a total strength.
BondGroups ==
    {NoGroup} \cup {[present |-> TRUE, total_strength |-> t] : t \in {0, 40, 100}}

\* Bond.importance (bond.py 213-217)
importance(b) == IF b.bond_category = "sameness" THEN 100 ELSE 50

\* Bond.happiness (bond.py 219-224): with a group, it reads the name group.
happiness(b, group) ==
    IF group.present
    THEN IF "group" \in HappinessNames \cup BondModuleNames
         THEN [BondResult("happiness", "value", group.total_strength, {})
                 EXCEPT !.group = group]
         ELSE [BondResult("happiness", "fault", 0, {}) EXCEPT !.group = group]
    ELSE [BondResult("happiness", "value", 0, {}) EXCEPT !.group = group]

\* Bond.unhappiness (bond.py 226-227)
unhappiness(b, group) ==
    LET h == happiness(b, group) IN
    IF h.outcome = "fault" THEN [h EXCEPT !.method = "unhappiness"]
    ELSE [h EXCEPT !.method = "unhappiness", !.value = 100 - h.value]

\* util.average of two numbers, rounded (ties away from zero).
RoundedAverage(a, b) == (a + b + 1) \div 2

\* Bond.salience (bond.py 229-230): util is looked up before the arguments
\* of util.average are evaluated.
salience(b, group) ==
    LET u == unhappiness(b, group) IN
    IF "util" \notin BondModuleNames
    THEN [BondResult("salience", "fault", 0, {}) EXCEPT !.group = group]
    ELSE IF u.outcome = "fault" THEN [u EXCEPT !.method = "salience"]
    ELSE [u EXCEPT !.method = "salience",
                   !.value = RoundedAverage(importance(b), u.value)]

Happiness ==
    /\ BondConstructed
    /\ \E group \in BondGroups :
          result' \in {happiness(bond, group), unhappiness(bond, group)}
    /\ UNCHANGED <<string_length, bond, wsVars>>

Salience ==
    /\ BondConstructed
    /\ \E group \in BondGroups : result' = salience(bond, group)
    /\ UNCHANGED <<string_length, bond, wsVars>>

\* The relations the object at one end of a bond may stand in: no
\* correspondence, a complete incompatible relation, a correspondence with
\* no string-position-category mapping, one whose other object is at no edge.
EndRelations(correspondence) ==
    {NoRelation,
     EndRelation(correspondence, TRUE, "leftmost", "directed", TRUE),
     EndRelation(correspondence, FALSE, "leftmost", "directed", TRUE),
     EndRelation(correspondence, TRUE, "middle", "none", FALSE)}

\* The names bound in get_incompatible_correspondences when its line 142 (or
\* 170) runs; the loop before it binds string_position_category_concept_mapping
\* when it finds such a mapping.
IncompatibleCorrespondencesNames(rel) ==
    {"self", "incompatible_correspondences", "correspondence", "cm"}
        \cup (IF rel.has_position_mapping
              THEN {"string_position_category_concept_mapping"} ELSE {})

\* One end of the bond in get_incompatible_correspondences (bond.py 135-161
\* for the left end, 163-189 for the right end).  R is the frame of the call:
\* pc is "run" until it returns or raises.
IncompatibleAtEnd(R, at_edge, rel) ==
    IF R.pc # "run" \/ ~at_edge THEN R
    ELSE IF rel.correspondence = None THEN [R EXCEPT !.pc = "none"]
    ELSE IF "string_position_cateogry_conept_mapping"
                \notin IncompatibleCorrespondencesNames(rel) \cup BondModuleNames
    THEN [R EXCEPT !.pc = "fault"]
    ELSE IF rel.other_edge = "middle" THEN [R EXCEPT !.pc = "none"]
    ELSE IF rel.other_bond = "none" THEN [R EXCEPT !.pc = "none"]
    ELSE IF rel.other_bond = "undirected" THEN [R EXCEPT !.pc = "none"]
    ELSE IF "Mapping" \notin BondModuleNames THEN [R EXCEPT !.pc = "fault"]
    ELSE IF rel.incompatible
    THEN [R EXCEPT !.items = @ \cup {rel.correspondence}]
    ELSE R

\* Bond.get_incompatible_correspondences (bond.py 121-191)
get_incompatible_correspondences(b, len, left, right) ==
    LET R0 == [pc |-> "run", items |-> {}]
        R1 == IncompatibleAtEnd(R0, is_leftmost_in_string(b), left)
        R2 == IncompatibleAtEnd(R1, is_rightmost_in_string(b, len), right)
    IN  [BondResult("get_incompatible_correspondences",
                    IF R2.pc = "run" THEN "value" ELSE R2.pc, 0, R2.items)
            EXCEPT !.left = left, !.right = right]

GetIncompatibleCorrespondences ==
    /\ BondConstructed
    /\ \E left \in EndRelations("cl"), right \in EndRelations("cr") :
          result' = get_incompatible_correspondences(bond, string_length,
                                                     left, right)
    /\ UNCHANGED <<string_length, bond, wsVars>>

\* The built bonds an object may have on one side: none, or one.
AttachedBonds ==
    {Attached(ll, lr, rl, rr) :
        ll \in {None, "b_ll"}, lr \in {None, "b_lr"},
        rl \in {None, "b_rl"}, rr \in {None, "b_rr"}}

\* Bond.get_incompatible_bonds (bond.py 112-119): the list holds
\* left_object.right_bond and right_object.left_bond as they are.
get_incompatible_bonds(b, attached) ==
    IF "util" \notin BondModuleNames
    THEN [BondResult("get_incompatible_bonds", "fault", 0, {})
            EXCEPT !.attached = attached]
    ELSE [BondResult("get_incompatible_bonds", "value", 0,
                     {attached.left_right, attached.right_left})
            EXCEPT !.attached = attached]

GetIncompatibleBonds ==
    /\ BondConstructed
    /\ \E attached \in AttachedBonds :
          result' = get_incompatible_bonds(bond, attached)
    /\ UNCHANGED <<string_length, bond, wsVars>>

\* The built bonds that join a left neighbor of the bond's left_object to it
\* (string.left_right_bonds), each with a positive salience.
LeftNeighborBonds == {"n1", "n2"}

\* The first definition of Bond.choose_left_neighbor (bond.py 82-95); pick is
\* the neighbor util.weight_select draws.
choose_left_neighbor_82(b, left_neighbors, pick) ==
    IF is_leftmost_in_string(b)
    THEN [BondResult("choose_left_neighbor", "none", 0, {})
            EXCEPT !.left_neighbors = left_neighbors]
    ELSE IF "util" \notin BondModuleNames
    THEN [BondResult("choose_left_neighbor", "fault", 0, {})
            EXCEPT !.left_neighbors = left_neighbors]
    ELSE [BondResult("choose_left_neighbor", "value", 0,
                     left_neighbors \cap {pick})
            EXCEPT !.left_neighbors = left_neighbors]

\* The second definition of Bond.choose_left_neighbor (bond.py 232-238): it
\* returns if the bond is leftmost, and has no statement after that.
choose_left_neighbor_232(b, left_neighbors, pick) ==
    IF is_leftmost_in_string(b)
    THEN [BondResult("choose_left_neighbor", "none", 0, {})
            EXCEPT !.left_neighbors = left_neighbors]
    ELSE [BondResult("choose_left_neighbor", "none", 0, {})
            EXCEPT !.left_neighbors = left_neighbors]

\* Bond.choose_left_neighbor as a call on a Bond finds it: the class body
\* binds the name at line 82 and again at line 232, and keeps the later one.
choose_left_neighbor(b, left_neighbors, pick) ==
    choose_left_neighbor_232(b, left_neighbors, pick)

ChooseLeftNeighbor ==
    /\ BondConstructed
    /\ \E left_neighbors \in SUBSET LeftNeighborBonds,
          pick \in LeftNeighborBonds :
          result' = choose_left_neighbor(bond, left_neighbors, pick)
    /\ UNCHANGED <<string_length, bond, wsVars>>

NextBond ==
    \/ ConstructBond
    \/ UpdateInternalStrength
    \/ Happiness
    \/ Salience
    \/ GetIncompatibleCorrespondences
    \/ GetIncompatibleBonds
    \/ ChooseLeftNeighbor

SpecBond == InitBond /\ [][NextBond]_vars

(***************************************************************************)
(*      The workspace, the slipnet and the coderack the codelets use       *)
(*                                                                         *)
(* The initial string holds the letter iA (leftmost) and the group iG that *)
(* spans it; the target string holds the letters tA (leftmost) and tB (in  *)
(* the middle) and a group spanning it, built in one direction (tG) or in  *)
(* the flipped one (tGf).  tb and tbf are the bond at tA's edge of the     *)
(* target string in the two directions.                                    *)
(***************************************************************************)

InitialObjects == {"iA", "iG"}
TargetObjects == {"tA", "tB", "tG", "tGf"}
Letters == {"iA", "tA", "tB"}
Groups == {"iG", "tG", "tGf"}
Bonds == {"tb", "tbf"}

spans_whole_string(o) == o \in Groups
is_string_spanning_group(o) == o \in Groups
leftmost_in_string(o) == o \in {"iA", "tA"} \cup Groups
rightmost_in_string(o) == o \in Groups

\* object.flipped_version(): a group's mirror image; a letter is its own.
flipped_version(o) ==
    CASE o = "tG" -> "tGf"
      [] o = "tGf" -> "tG"
      [] OTHER -> o

\* group.bonds(), bond.group
BondsOf(g) ==
    CASE g = "tG" -> {"tb"}
      [] g = "tGf" -> {"tbf"}
      [] OTHER -> {}

GroupOf(W, b) ==
    CASE b = "tb" /\ "tG" \in W.groups -> "tG"
      [] b = "tbf" /\ "tGf" \in W.groups -> "tGf"
      [] OTHER -> None

\* Concept mappings and their attributes.
Mappings == {"mPos", "mDir", "mCat"}

description_type1(m) ==
    CASE m = "mPos" -> "plato_string_position_category"
      [] m = "mDir" -> "plato_direction_category"
      [] OTHER -> "plato_object_category"

is_distinguishing(m) == m # "mCat"

MappingLabel(m) == IF m = "mDir" THEN "plato_opposite" ELSE "plato_identity"

\* nodes.are_all_opposite_concept_mappings
are_all_opposite_concept_mappings(ms) ==
    \A m \in ms : MappingLabel(m) = "plato_opposite"

\* What get_concept_mappings can return for two objects, depending on their
\* descriptions at the time: nothing, the category mapping alone, or every
\* mapping the pair admits (two groups share a direction, the middle letter
\* tB shares no distinguishing description with an object of the initial
\* string, the other pairs share their place at the left edge).
AllMappings(object1, object2) ==
    IF object1 \in Groups /\ object2 \in Groups THEN {"mDir", "mCat"}
    ELSE IF object2 = "tB" THEN {"mCat"}
    ELSE {"mPos", "mCat"}

PossibleMappings(object1, object2) ==
    {{}, {"mCat"}, AllMappings(object1, object2)}

\* Correspondence objects: ids 0..MaxCorr; id 0 is a correspondence that may
\* have been built before the codelets of this family run.
CorrIds == 0..MaxCorr

NoCorr == [object1 |-> None, object2 |-> None, concept_mappings |-> {},
           proposal_level |-> 0, total_strength |-> 0]

NewCorrespondence(object1, object2, mappings, level) ==
    [object1 |-> object1, object2 |-> object2, concept_mappings |-> mappings,
     proposal_level |-> level, total_strength |-> 0]

\* correspondence.update_strengths(): total strength from the mappings.
UpdatedStrength(co) ==
    LET d == Cardinality({m \in co.concept_mappings : is_distinguishing(m)})
        n == Cardinality(co.concept_mappings) - d
    IN  Min(100, 40 * d + 20 * n)

Workspace ==
    [groups |-> groups, bonds |-> bonds, rule |-> rule, corr |-> corr,
     proposed_correspondences |-> proposed_correspondences,
     correspondences |-> correspondences, coderack |-> coderack]

\* workspace.objects()
workspace_objects(W) == Letters \cup W.groups

\* target_string.is_group_present(group): the built group equal to it.
is_group_present(W, g) == IF g \in W.groups THEN g ELSE None

Created(W) == {i \in CorrIds : W.corr[i].proposal_level > 0}

\* workspace.correspondence_present(c): the built correspondences between
\* the same two objects (at most one is returned by the workspace).
correspondence_present(W, c) ==
    {d \in W.correspondences :
        /\ W.corr[d].object1 = W.corr[c].object1
        /\ W.corr[d].object2 = W.corr[c].object2}

\* correspondence.mapping_present(mapping)
mapping_present(co, m) == m \in co.concept_mappings

\* correspondence.incompatible_corresondences(): built correspondences that
\* share exactly one of its objects.
incompatible_correspondences(W, c) ==
    {d \in W.correspondences \ {c} :
        (W.corr[d].object1 = W.corr[c].object1)
            # (W.corr[d].object2 = W.corr[c].object2)}

\* correspondence.incompatible_bond(): the built bond at the target edge.
incompatible_bond(W, c) ==
    IF W.corr[c].object2 = "tA" /\ "tb" \in W.bonds THEN "tb" ELSE None

\* correspondence.incompatible_rule()
incompatible_rule(W, c) == W.rule /\ W.corr[c].object1 = "iA"

delete_proposed_correspondence(W, c) ==
    [W EXCEPT !.proposed_correspondences = @ \ {c}]

add_concept_mappings(W, d, ms) ==
    [W EXCEPT !.corr[d].concept_mappings = @ \cup ms]

build_correspondence(W, c) ==
    [W EXCEPT !.correspondences = @ \cup {c},
              !.corr[c].proposal_level = 3]

break_correspondence(W, d) == [W EXCEPT !.correspondences = @ \ {d}]

break_bond(W, b) == [W EXCEPT !.bonds = @ \ {b}]

build_bonds(W, bs) == [W EXCEPT !.bonds = @ \cup bs]

\* Breaking a group breaks its bonds and every built correspondence that
\* refers to it.
break_group(W, g) ==
    [W EXCEPT !.groups = @ \ {g},
              !.bonds = @ \ BondsOf(g),
              !.correspondences =
                  {d \in @ : g \notin {W.corr[d].object1, W.corr[d].object2}}]

build_group(W, g) == [W EXCEPT !.groups = @ \cup {g}]

break_rule(W) == [W EXCEPT !.rule = FALSE]

FreeIds(W) == {i \in CorrIds \ {0} : W.corr[i].proposal_level = 0}

LeastOf(S) == CHOOSE i \in S : \A j \in S : i <= j

\* Urgency of the strength tester a proposal posts.
ProposalUrgency(mappings) ==
    UpdatedStrength(NewCorrespondence(None, None, mappings, 1))

\* workspace.propose_correspondence(object1, object2, mappings, flip_object2):
\* a new correspondence at proposal level 1, recorded as proposed, and a
\* strength tester posted for it.
propose_correspondence(W, object1, object2, mappings, flip_object2) ==
    LET c == LeastOf(FreeIds(W)) IN
    [W EXCEPT
        !.corr[c] = NewCorrespondence(object1, object2, mappings, 1),
        !.proposed_correspondences = @ \cup {c},
        !.coderack = @ \cup
            {[kind |-> "correspondence_strength_tester", correspondence |-> c,
              flip_object2 |-> flip_object2,
              urgency |-> ProposalUrgency(mappings)]}]

\* The record of a codelet run.
\*   correspondence  the correspondence it ran on or proposed (a set)
\*   one_spans       a scout: exactly one of its two objects spans its string
\*   mappings        a scout: the concept mappings it first computed
\*   stale           a builder: one of the correspondence's concept mappings
\*                   was no longer relevant
RunRecord(codelet, outcome) ==
    [codelet |-> codelet, outcome |-> outcome, correspondence |-> {},
     flip_object2 |-> FALSE, fights |-> {}, posted |-> {},
     one_spans |-> FALSE, mappings |-> {}, stale |-> FALSE]

\* A scout's decision: the outcome and, when it proposes, what it hands to
\* propose_correspondence.
Proposal(outcome, object1, object2, mappings) ==
    [outcome |-> outcome, object1 |-> object1, object2 |-> object2,
     mappings |-> mappings, flip_object2 |-> TRUE]

Fizzle == Proposal("fizzle", None, None, {})
Fault == Proposal("fault", None, None, {})

(***************************************************************************)
(*                  CorrespondenceBottomUpScout.run                        *)
(***************************************************************************)

\* correspondence.py 37-39
SpanMismatchInverted(object1, object2) ==
    spans_whole_string(object1) = spans_whole_string(object2)

SpanMismatch(object1, object2) ==
    spans_whole_string(object1) # spans_whole_string(object2)

\* correspondence.py 63-69
PossibleOppositeMappings(distinguished_mappings) ==
    {m \in distinguished_mappings :
        /\ description_type1(m) # "plato_string_position_category"
        /\ description_type1(m) # "plato_bond_facet"}

\* correspondence.py 71-76
BottomUpFlipCondition(object1, object2, mappings, distinguished_mappings, opposite_active) ==
    /\ is_string_spanning_group(object1)
    /\ is_string_spanning_group(object2)
    /\ ~opposite_active
    /\ are_all_opposite_concept_mappings(
           PossibleOppositeMappings(distinguished_mappings))
    /\ "plato_direction_category" \in {description_type1(m) : m \in mappings}

\* CorrespondenceBottomUpScout.run up to the call of propose_correspondence:
\* the outcome and, when it proposes, what it hands over.
\*   mappings         what get_concept_mappings returns
\*   possible         whether one of the slippability coin flips succeeded
\*   opposite_active  nodes.plato_opposite.is_active()
\*   mappings2        what the recomputation on the flip path returns
BottomUpScout_run(object1, object2, mappings, possible, opposite_active, mappings2) ==
    LET distinguished_mappings == {m \in mappings : is_distinguishing(m)} IN
    IF SpanMismatch(object1, object2) THEN Fizzle
    ELSE IF mappings = {} THEN Fizzle
    ELSE IF ~possible THEN Fizzle
    ELSE IF distinguished_mappings = {} THEN Fizzle
    ELSE IF BottomUpFlipCondition(object1, object2, mappings,
                                  distinguished_mappings, opposite_active)
    THEN Proposal("propose", object1, flipped_version(object2), mappings2)
    ELSE Proposal("propose", object1, object2, mappings)

\* The workspace after a scout's run.
ScoutEffect(W, p) ==
    IF p.outcome = "propose"
    THEN propose_correspondence(W, p.object1, p.object2, p.mappings,
                                p.flip_object2)
    ELSE W

\* The record of a scout's run on object1 and object2.
ScoutRecord(W, codelet, object1, object2, mappings, p) ==
    LET W2 == ScoutEffect(W, p)
        rec == [RunRecord(codelet, p.outcome) EXCEPT
                  !.one_spans = (spans_whole_string(object1)
                                   # spans_whole_string(object2)),
                  !.mappings = mappings]
    IN  IF p.outcome = "propose"
        THEN [rec EXCEPT !.correspondence = {LeastOf(FreeIds(W))},
                         !.flip_object2 = p.flip_object2,
                         !.posted = W2.coderack \ W.coderack]
        ELSE rec

\* The inputs a scout's run reads beyond its two objects: mappings are drawn
\* only for a run that asks for them, coin flips only for mappings found, and
\* the flip path is open to two groups.
MappingsFound(object1, object2) ==
    IF SpanMismatch(object1, object2)
    THEN {{}} ELSE PossibleMappings(object1, object2)

Recomputed(object1, object2, mappings) ==
    IF object1 \in Groups /\ object2 \in Groups /\ "mDir" \in mappings
    THEN PossibleMappings(object1, flipped_version(object2)) ELSE {{}}

CoinFlips(mappings) == IF mappings = {} THEN {FALSE} ELSE BOOLEAN

OppositeActive(object1, object2) ==
    IF object1 \in Groups /\ object2 \in Groups THEN BOOLEAN ELSE {FALSE}

SetWorkspace(W) ==
    /\ groups' = W.groups
    /\ bonds' = W.bonds
    /\ rule' = W.rule
    /\ corr' = W.corr
    /\ proposed_correspondences' = W.proposed_correspondences
    /\ correspondences' = W.correspondences
    /\ coderack' = W.coderack

CorrespondenceBottomUpScout ==
    \E object1 \in InitialObjects \cap workspace_objects(Workspace),
       object2 \in TargetObjects \cap workspace_objects(Workspace) :
    \E mappings \in MappingsFound(object1, object2),
       opposite_active \in OppositeActive(object1, object2) :
    \E possible \in CoinFlips(mappings),
       mappings2 \in Recomputed(object1, object2, mappings) :
        LET p == BottomUpScout_run(object1, object2, mappings, possible,
                                   opposite_active, mappings2)
        IN  /\ p.outcome = "propose" => FreeIds(Workspace) # {}
            /\ SetWorkspace(ScoutEffect(Workspace, p))
            /\ last' = ScoutRecord(Workspace, "CorrespondenceBottomUpScout",
                                   object1, object2, mappings, p)
            /\ UNCHANGED bondVars

(***************************************************************************)
(*               CorrespondenceImportantObjectScout.run                    *)
(***************************************************************************)

\* The methods of a concept mapping (those CorrespondenceBottomUpScout.run
\* calls, correspondence.py 51 and 59).
MappingMethods == {"slippability", "is_distinguishing"}

\* The names CorrespondenceImportantObjectScout.run binds before line 259.
ImportantObjectScoutNames ==
    {"self", "coderack", "slipnet", "workspace", "object1",
     "object1_description", "object1_descriptor", "object2_descriptor",
     "object2_candidates", "values", "index", "object2", "mappings",
     "possible", "distinguished_mappings", "possible_opposite_mappings"}

\* correspondence.py 265-270
ImportantObjectFlipCondition(object1, object2, mappings, distinguishing_mappings) ==
    /\ is_string_spanning_group(object1)
    /\ is_string_spanning_group(object2)
    /\ are_all_opposite_concept_mappings(
           PossibleOppositeMappings(distinguishing_mappings))
    /\ "plato_direction_category" \in {description_type1(m) : m \in mappings}

\* CorrespondenceImportantObjectScout.run up to propose_correspondence.
\*   has_description  choose_relevant_distinguishing_description... found one
\*   has_candidates   a target object carries the descriptor
ImportantObjectScout_run(object1, has_description, has_candidates, object2, mappings, possible, mappings2) ==
    \* line 253: one entry per mapping, whatever distinguishing() returns
    LET distinguished_mappings == mappings IN
    IF ~has_description THEN Fizzle
    ELSE IF ~has_candidates THEN Fizzle
    ELSE IF SpanMismatch(object1, object2) THEN Fizzle
    ELSE IF mappings = {} THEN Fizzle
    \* line 245: mapping.slippablity()
    ELSE IF "slippablity" \notin MappingMethods THEN Fault
    ELSE IF ~possible THEN Fizzle
    ELSE IF distinguished_mappings = {} THEN Fizzle
    \* line 259: distinguishing_mappings
    ELSE IF "distinguishing_mappings" \notin ImportantObjectScoutNames
    THEN Fault
    ELSE IF ImportantObjectFlipCondition(object1, object2, mappings,
                                         distinguished_mappings)
    THEN Proposal("propose", object1, flipped_version(object2), mappings2)
    ELSE Proposal("propose", object1, object2, mappings)

\* The run chooses object2 among the target objects that carry the
\* descriptor; the runs that return before that are drawn once.
CorrespondenceImportantObjectScout ==
    \E object1 \in InitialObjects \cap workspace_objects(Workspace),
       chosen \in {"no_description", "no_candidates"}
                    \cup (TargetObjects \cap workspace_objects(Workspace)) :
    \E mappings \in IF chosen \in TargetObjects
                     THEN MappingsFound(object1, chosen) ELSE {{}} :
    \E possible \in CoinFlips(mappings),
       mappings2 \in Recomputed(object1, chosen, mappings) :
        LET p == ImportantObjectScout_run(object1,
                     chosen # "no_description", chosen \in TargetObjects,
                     chosen, mappings, possible, mappings2)
            o2 == IF chosen \in TargetObjects THEN chosen ELSE object1
        IN  /\ p.outcome = "propose" => FreeIds(Workspace) # {}
            /\ SetWorkspace(ScoutEffect(Workspace, p))
            /\ last' = ScoutRecord(Workspace,
                           "CorrespondenceImportantObjectScout",
                           object1, o2, mappings, p)
            /\ UNCHANGED bondVars

(***************************************************************************)
(*                   CorrespondenceStrengthTester.run                      *)
(***************************************************************************)

\* correspondence.py 294-299
TesterObjectsGone(W, co, flip_object2) ==
    \/ co.object1 \notin workspace_objects(W)
    \/ /\ co.object2 \notin workspace_objects(W)
       /\ ~(flip_object2
              /\ is_group_present(W, flipped_version(co.object2)) # None)

\* The kind tags of the codelet classes of correspondence.py: the class name
\* in lower case with underscores.
CodeletKinds ==
    {"correspondence_bottom_up_scout", "correspondence_builder",
     "correspondence_important_object_scout",
     "correspondence_strength_tester"}

\* correspondence.py 322-324: the codelet the tester returns for posting.
TesterPosts(c, flip_object2, strength) ==
    {[kind |-> "correspondence_buidler", correspondence |-> c,
      flip_object2 |-> flip_object2, urgency |-> strength]}

\* CorrespondenceStrengthTester.run; coin is the outcome of flip_coin.
StrengthTester_runLevelBuilt(W, c, flip_object2, coin) ==
    LET co == W.corr[c]
        rec0 == [RunRecord("CorrespondenceStrengthTester", "fizzle")
                    EXCEPT !.correspondence = {c},
                           !.flip_object2 = flip_object2]
        strength == UpdatedStrength(co)
        W1 == [W EXCEPT !.corr[c].total_strength = strength]
    IN
    IF TesterObjectsGone(W, co, flip_object2) THEN [ws |-> W, rec |-> rec0]
    ELSE IF ~coin
    THEN [ws |-> delete_proposed_correspondence(W1, c),
          rec |-> [rec0 EXCEPT !.outcome = "discard"]]
    ELSE LET posted == TesterPosts(c, flip_object2, strength) IN
         [ws |-> [W1 EXCEPT !.corr[c].proposal_level = 3,
                            !.coderack = @ \cup posted],
          rec |-> [rec0 EXCEPT !.outcome = "post", !.posted = posted]]

StrengthTester_run(W, c, flip_object2, coin) ==
    LET co == W.corr[c]
        rec0 == [RunRecord("CorrespondenceStrengthTester", "fizzle")
                    EXCEPT !.correspondence = {c},
                           !.flip_object2 = flip_object2]
        strength == UpdatedStrength(co)
        W1 == [W EXCEPT !.corr[c].total_strength = strength]
    IN
    IF TesterObjectsGone(W, co, flip_object2) THEN [ws |-> W, rec |-> rec0]
    ELSE IF ~coin
    THEN [ws |-> delete_proposed_correspondence(W1, c),
          rec |-> [rec0 EXCEPT !.outcome = "discard"]]
    ELSE LET posted == TesterPosts(c, flip_object2, strength) IN
         [ws |-> [W1 EXCEPT !.corr[c].proposal_level = 2,
                            !.coderack = @ \cup posted],
          rec |-> [rec0 EXCEPT !.outcome = "post", !.posted = posted]]

\* The coderack runs a strength tester it holds.
CorrespondenceStrengthTester ==
    \E cl \in coderack, coin \in BOOLEAN :
        /\ cl.kind = "correspondence_strength_tester"
        /\ LET W == [Workspace EXCEPT !.coderack = @ \ {cl}]
               r == StrengthTester_run(W, cl.correspondence,
                                       cl.flip_object2, coin)
           IN  /\ SetWorkspace(r.ws)
               /\ last' = r.rec
        /\ UNCHANGED bondVars

(***************************************************************************)
(*                      CorrespondenceBuilder.run                          *)
(***************************************************************************)

Unbound == "Unbound"

\* The names CorrespondenceBuilder.run binds before its first use of
\* flip_object2 (correspondence.py 92-102); the second argument is bound to
\* flip_obj2.
BuilderNames ==
    {"self", "coderack", "slipnet", "workspace", "correspondence",
     "flip_obj2", "object1", "object2", "flipped", "existing_object2_group",
     "objects"}

FlipObject2Bound == "flip_object2" \in BuilderNames

StructKinds == {"bond", "group", "flipped_group", "rule"}

\* The outcomes the fights against a bond, a group and the rule can have, as
\* the set of kinds won.  A run returns at the first fight it loses, so the
\* fights after it are not held: one loss at most is drawn.
FightOutcomes == {StructKinds} \cup {StructKinds \ {k} : k \in StructKinds}

\* The frame of a run: the workspace, where the run stands (pc is "run" until
\* it returns or raises), its arguments, the outcomes its fights would have,
\* and its locals.
BuilderEnter(W, c, flip_obj2, winsC, wins, irrelevant) ==
    [ws |-> W, pc |-> "run", c |-> c, flip_obj2 |-> flip_obj2,
     winsC |-> winsC, wins |-> wins, irrelevant |-> irrelevant,
     fights |-> {},
     existing_object2_group |->
         is_group_present(W, flipped_version(W.corr[c].object2)),
     incompatible_correspondences |-> {},
     incompatible_bond |-> Unbound,
     incompatible_group |-> Unbound,
     incompatible_rule |-> FALSE]

Fight(against, target, won) ==
    [against |-> against, target |-> target, won |-> won]

\* correspondence.py 101-106
B_CheckObjects(F) ==
    LET co == F.ws.corr[F.c] IN
    IF F.pc # "run" THEN F
    ELSE IF co.object1 \notin workspace_objects(F.ws)
    THEN [F EXCEPT !.pc = "fizzle_objects"]
    ELSE IF co.object2 \in workspace_objects(F.ws) THEN F
    ELSE IF ~FlipObject2Bound THEN [F EXCEPT !.pc = "fault"]
    ELSE IF ~(F.flip_obj2 /\ F.existing_object2_group # None)
    THEN [F EXCEPT !.pc = "fizzle_objects"]
    ELSE F

\* correspondence.py 108-120
B_ExistingNoReturn(F) ==
    LET existing_correspondence == correspondence_present(F.ws, F.c)
        W1 == delete_proposed_correspondence(F.ws, F.c)
    IN
    IF F.pc # "run" THEN F
    ELSE IF existing_correspondence = {} THEN F
    ELSE [F EXCEPT !.ws = W1]

B_Existing(F) ==
    LET co == F.ws.corr[F.c]
        existing_correspondence == correspondence_present(F.ws, F.c)
        W1 == delete_proposed_correspondence(F.ws, F.c)
        \* line 117 asks the proposed correspondence itself
        mappings_to_add ==
            {m \in co.concept_mappings : ~mapping_present(co, m)}
        e == CHOOSE d \in existing_correspondence : TRUE
    IN
    IF F.pc # "run" THEN F
    ELSE IF existing_correspondence = {} THEN F
    ELSE [F EXCEPT !.ws = add_concept_mappings(W1, e, mappings_to_add),
                   !.pc = "merged"]

\* correspondence.py 122-125
B_RelevantIgnored(F) == F

B_Relevant(F) ==
    IF F.pc # "run" THEN F
    ELSE IF \E m \in F.ws.corr[F.c].concept_mappings : m \in F.irrelevant
    THEN [F EXCEPT !.pc = "fizzle_irrelevant"]
    ELSE F

\* correspondence.py 127-128
B_DeleteProposed(F) ==
    IF F.pc # "run" THEN F
    ELSE [F EXCEPT !.ws = delete_proposed_correspondence(F.ws, F.c)]

\* correspondence.py 130-137: one fight per incompatible correspondence; the
\* run returns at the first one lost.
B_FightCorrespondencesBreaking(F) ==
    LET inc == incompatible_correspondences(F.ws, F.c)
        lost == inc \ F.winsC
        held == IF lost = {} THEN inc
                ELSE {d \in inc : d <= LeastOf(lost)}
    IN
    IF F.pc # "run" THEN F
    ELSE [F EXCEPT
            !.ws = [F.ws EXCEPT !.correspondences = @ \ (held \cap F.winsC)],
            !.incompatible_correspondences = inc,
            !.fights = @ \cup {Fight("correspondence", ToString(d),
                                     d \in F.winsC) : d \in held},
            !.pc = IF lost = {} THEN "run" ELSE "lost"]

B_FightCorrespondences(F) ==
    LET inc == incompatible_correspondences(F.ws, F.c)
        lost == inc \ F.winsC
        held == IF lost = {} THEN inc
                ELSE {d \in inc : d <= LeastOf(lost)}
    IN
    IF F.pc # "run" THEN F
    ELSE [F EXCEPT
            !.incompatible_correspondences = inc,
            !.fights = @ \cup {Fight("correspondence", ToString(d),
                                     d \in F.winsC) : d \in held},
            !.pc = IF lost = {} THEN "run" ELSE "lost"]

\* correspondence.py 139-152
B_FightBondBreaksFirst(F) ==
    LET co == F.ws.corr[F.c]
        ib == incompatible_bond(F.ws, F.c)
        ig == GroupOf(F.ws, ib)
        F1 == [F EXCEPT !.incompatible_bond = ib]
        F2 == [F1 EXCEPT !.ws = break_bond(F.ws, ib),
                         !.fights = @ \cup
                            {Fight("bond", ib, "bond" \in F.wins)}]
        F3 == [F2 EXCEPT !.incompatible_group = ig]
        F4 == [F3 EXCEPT !.fights = @ \cup
                            {Fight("group", ig, "group" \in F.wins)}]
    IN
    IF F.pc # "run" THEN F
    ELSE IF ~((leftmost_in_string(co.object1) \/ rightmost_in_string(co.object1))
              /\ (leftmost_in_string(co.object2)
                    \/ rightmost_in_string(co.object2)))
    THEN F
    ELSE IF ib = None THEN F1
    ELSE IF "bond" \notin F.wins THEN [F2 EXCEPT !.pc = "lost"]
    ELSE IF ig = None THEN F3
    ELSE IF "group" \notin F.wins THEN [F4 EXCEPT !.pc = "lost"]
    ELSE F4

B_FightBond(F) ==
    LET co == F.ws.corr[F.c]
        ib == incompatible_bond(F.ws, F.c)
        ig == GroupOf(F.ws, ib)
        F1 == [F EXCEPT !.incompatible_bond = ib]
        F2 == [F1 EXCEPT !.fights = @ \cup
                            {Fight("bond", ib, "bond" \in F.wins)}]
        F3 == [F2 EXCEPT !.incompatible_group = ig]
        F4 == [F3 EXCEPT !.fights = @ \cup
                            {Fight("group", ig, "group" \in F.wins)}]
    IN
    IF F.pc # "run" THEN F
    ELSE IF ~((leftmost_in_string(co.object1) \/ rightmost_in_string(co.object1))
              /\ (leftmost_in_string(co.object2)
                    \/ rightmost_in_string(co.object2)))
    THEN F
    ELSE IF ib = None THEN F1
    ELSE IF "bond" \notin F.wins THEN [F2 EXCEPT !.pc = "lost"]
    ELSE IF ig = None THEN F3
    ELSE IF "group" \notin F.wins THEN [F4 EXCEPT !.pc = "lost"]
    ELSE F4

\* correspondence.py 154-158
B_FightFlipped(F) ==
    IF F.pc # "run" THEN F
    ELSE IF ~FlipObject2Bound THEN [F EXCEPT !.pc = "fault"]
    ELSE IF ~F.flip_obj2 THEN F
    ELSE [F EXCEPT
            !.fights = @ \cup {Fight("flipped_group", F.existing_object2_group,
                                     "flipped_group" \in F.wins)},
            !.pc = IF "flipped_group" \in F.wins THEN "run" ELSE "lost"]

\* correspondence.py 160-164
B_FightRule(F) ==
    LET ir == incompatible_rule(F.ws, F.c) IN
    IF F.pc # "run" THEN F
    ELSE IF ~ir THEN F
    ELSE [F EXCEPT
            !.incompatible_rule = TRUE,
            !.fights = @ \cup {Fight("rule", "rule", "rule" \in F.wins)},
            !.pc = IF "rule" \in F.wins THEN "run" ELSE "lost"]

\* correspondence.py 166-186
B_Break(F) ==
    LET co == F.ws.corr[F.c]
        W1 == [F.ws EXCEPT !.correspondences =
                               @ \ F.incompatible_correspondences]
        W2 == IF F.incompatible_bond # None
              THEN break_bond(W1, F.incompatible_bond) ELSE W1
        W3 == IF F.incompatible_group # None
              THEN break_group(W2, F.incompatible_group) ELSE W2
        eg == F.existing_object2_group
        W4 == IF eg # None
              THEN build_group(
                       build_bonds(
                           [break_group(W3, eg) EXCEPT !.bonds = @ \ BondsOf(eg)],
                           BondsOf(co.object2)),
                       co.object2)
              ELSE W3
        W5 == IF F.incompatible_rule THEN break_rule(W4) ELSE W4
    IN
    IF F.pc # "run" THEN F
    ELSE IF F.incompatible_bond = Unbound
    THEN [F EXCEPT !.ws = W1, !.pc = "fault"]
    ELSE IF F.incompatible_group = Unbound
    THEN [F EXCEPT !.ws = W2, !.pc = "fault"]
    ELSE [F EXCEPT !.ws = W5]

\* correspondence.py 188-189
B_Build(F) ==
    IF F.pc # "run" THEN F
    ELSE [F EXCEPT !.ws = build_correspondence(F.ws, F.c), !.pc = "built"]

\* CorrespondenceBuilder.run
Builder_run(W, c, flip_obj2, winsC, wins, irrelevant) ==
    LET F0 == BuilderEnter(W, c, flip_obj2, winsC, wins, irrelevant)
        F1 == B_Existing(B_CheckObjects(F0))
        F2 == B_DeleteProposed(B_Relevant(F1))
        F3 == B_FightBond(B_FightCorrespondences(F2))
        F4 == B_FightRule(B_FightFlipped(F3))
    IN  B_Build(B_Break(F4))

\* The outcomes to draw for a run: a fight that is not held even when every
\* fight is won has no outcome.
OutcomesDrawn(W, c, flip_obj2, winsC, irrelevant) ==
    LET held == {f.against :
                    f \in Builder_run(W, c, flip_obj2, winsC, StructKinds,
                                      irrelevant).fights}
    IN  {w \in FightOutcomes : StructKinds \ w \subseteq held}

\* A builder is run with the arguments its poster bound: a correspondence the
\* workspace has seen, and the flip flag.
CorrespondenceBuilder ==
    \E c \in Created(Workspace), flip_obj2 \in BOOLEAN :
    \E winsC \in SUBSET incompatible_correspondences(Workspace, c),
       irrelevant \in {{}} \cup {{m} : m \in corr[c].concept_mappings} :
    \E wins \in OutcomesDrawn(Workspace, c, flip_obj2, winsC, irrelevant) :
        LET F == Builder_run(Workspace, c, flip_obj2, winsC, wins, irrelevant)
        IN  /\ SetWorkspace(F.ws)
            /\ last' = [RunRecord("CorrespondenceBuilder", F.pc)
                          EXCEPT !.correspondence = {c},
                                 !.flip_object2 = flip_obj2,
                                 !.fights = F.fights,
                                 !.stale = (irrelevant # {})]
            /\ UNCHANGED bondVars

(***************************************************************************)
(*                 Other codelets acting on the workspace                  *)
(***************************************************************************)

\* Another codelet breaks a built group.
BreakGroup ==
    \E g \in groups :
        /\ SetWorkspace(break_group(Workspace, g))
        /\ last' = RunRecord("BreakGroup", "broke")
        /\ UNCHANGED bondVars

(***************************************************************************)
(*                        The specification                                *)
(***************************************************************************)

\* A correspondence built before these codelets run.
PrebuiltCorrespondences ==
    {NoCorr,
     [NewCorrespondence("iA", "tA", {"mPos"}, 3) EXCEPT !.total_strength = 40],
     [NewCorrespondence("iA", "tB", {"mCat"}, 3) EXCEPT !.total_strength = 20]}

Init ==
    /\ string_length = 1
    /\ bond = NoBond
    /\ result = NoResult
    /\ groups \in {{}, {"iG", "tG"}}
    /\ bonds = {"tb"}
    /\ rule = TRUE
    /\ \E pre \in PrebuiltCorrespondences :
          /\ corr = [i \in CorrIds |-> IF i = 0 THEN pre ELSE NoCorr]
          /\ correspondences = IF pre = NoCorr THEN {} ELSE {0}
    /\ proposed_correspondences = {}
    /\ coderack = {}
    /\ last = RunRecord(None, None)

Next ==
    \/ CorrespondenceBottomUpScout
    \/ CorrespondenceImportantObjectScout
    \/ CorrespondenceStrengthTester
    \/ CorrespondenceBuilder
    \/ BreakGroup

Spec == Init /\ [][Next]_vars

(***************************************************************************)
(*               Properties of the correspondence codelets                 *)
(*                                                                         *)
(* A property of one run is stated over a step: the unprimed variables are *)
(* the workspace the codelet ran against, last' is the record of the run   *)
(* and the primed variables the workspace it left.                         *)
(***************************************************************************)

\* The built structures of the workspace.
BuiltStructures == <<groups, bonds, rule, correspondences>>

\* C1: competitive resolution in CorrespondenceBuilder.run is all-or-nothing.
\* A run that loses one of its fights leaves every built structure as it
\* found it and does not build its correspondence; a run that breaks or
\* builds a structure has won every fight it held.
C1_AllOrNothing ==
    [][last'.codelet = "CorrespondenceBuilder" =>
          /\ (\E f \in last'.fights : ~f.won) =>
                /\ UNCHANGED BuiltStructures
                /\ last'.correspondence \cap correspondences' = {}
          /\ (last'.outcome = "built" \/ ~UNCHANGED BuiltStructures) =>
                \A f \in last'.fights : f.won]_vars

\* A builder run that won a fight and then lost the next one.
C1_Witness ==
    /\ last.codelet = "CorrespondenceBuilder"
    /\ last.outcome = "lost"
    /\ \E f \in last.fights : f.won
    /\ \E f \in last.fights : ~f.won

\* C2: a builder run on a correspondence whose equivalent is already built
\* holds no fight, breaks nothing and builds nothing: the built structures,
\* the set of built correspondences among them, are the same before and
\* after the run, so also after any number of such runs.
C2_BuilderIdempotent ==
    [][(/\ last'.codelet = "CorrespondenceBuilder"
        /\ \E c \in last'.correspondence :
              correspondence_present(Workspace, c) # {}) =>
          /\ last'.fights = {}
          /\ UNCHANGED BuiltStructures]_vars

\* A builder run that took the existing-correspondence path for a proposed
\* correspondence that is not itself the built one.
C2_Witness ==
    /\ last.codelet = "CorrespondenceBuilder"
    /\ last.outcome = "merged"
    /\ last.correspondence \cap correspondences = {}
    /\ \E c \in last.correspondence :
          correspondence_present(Workspace, c) # {}

\* C3: after a builder run took the existing-correspondence path, the built
\* correspondence between the two objects carries every concept mapping of
\* the proposed one.
C3_MergeAddsMappings ==
    (last.codelet = "CorrespondenceBuilder" /\ last.outcome = "merged") =>
        \A c \in last.correspondence :
            \A d \in correspondence_present(Workspace, c) :
                corr[c].concept_mappings \subseteq corr[d].concept_mappings

\* The ways a tester's or a builder's run ends without advancing or building
\* its correspondence: the objects are gone, the coin flip failed, a concept
\* mapping is no longer relevant, a fight was lost.
Discards ==
    {"fizzle", "discard", "fizzle_objects", "fizzle_irrelevant", "lost"}

\* C4: whenever a strength tester's or a builder's run discards its
\* correspondence, the correspondence is not among the workspace's proposed
\* correspondences after the run.
C4_DiscardRemovesProposal ==
    (/\ last.codelet \in {"CorrespondenceStrengthTester",
                          "CorrespondenceBuilder"}
     /\ last.outcome \in Discards) =>
        last.correspondence \cap proposed_correspondences = {}

\* C5: a strength tester's run with both objects present posts exactly one
\* codelet of the correspondence-builder kind, bound to the correspondence
\* and flip_object2, with the correspondence's total strength as urgency,
\* and sets the proposal level to 2, when the coin flip succeeds; when it
\* fails, it posts nothing and leaves the proposal level as it was.
C5_TesterOutcome ==
    [][(/\ last'.codelet = "CorrespondenceStrengthTester"
        /\ last'.outcome \in {"post", "discard"}) =>
          \A c \in last'.correspondence :
              IF last'.outcome = "post"
              THEN /\ last'.posted =
                         {[kind |-> "correspondence_builder",
                           correspondence |-> c,
                           flip_object2 |-> last'.flip_object2,
                           urgency |-> corr'[c].total_strength]}
                   /\ coderack' \ coderack = last'.posted
                   /\ corr'[c].proposal_level = 2
              ELSE /\ last'.posted = {}
                   /\ coderack' \subseteq coderack
                   /\ corr'[c].proposal_level = corr[c].proposal_level]_vars

\* C6: a scout's run on two objects of which exactly one spans its whole
\* string proposes no correspondence, posts no codelet and leaves the built
\* and the proposed structures of the workspace as they were.
C6_SpanMismatchFizzle ==
    [][(/\ last'.codelet \in {"CorrespondenceBottomUpScout",
                              "CorrespondenceImportantObjectScout"}
        /\ last'.one_spans) =>
          /\ last'.correspondence = {}
          /\ last'.posted = {}
          /\ UNCHANGED <<BuiltStructures, corr, proposed_correspondences,
                         coderack>>]_vars

\* A bottom-up scout ran on a group and a letter, with a proposal still
\* possible in the workspace.
C6_Witness ==
    /\ last.codelet = "CorrespondenceBottomUpScout"
    /\ last.one_spans
    /\ last.outcome = "fizzle"
    /\ FreeIds(Workspace) # {}

\* A structure a fight was held against is still built.
StillBuilt(f) ==
    CASE f.against = "correspondence" ->
             \E d \in correspondences : ToString(d) = f.target
      [] f.against = "bond" -> f.target \in bonds
      [] f.against \in {"group", "flipped_group"} -> f.target \in groups
      [] OTHER -> rule

\* C16: a builder run that wins every fight, with its two objects present
\* and no equivalent correspondence built, breaks every structure it fought
\* and then builds its correspondence: after it none of them is still built.
C16_BreakBeforeBuild ==
    (/\ last.codelet = "CorrespondenceBuilder"
     /\ last.fights # {}
     /\ \A f \in last.fights : f.won) =>
        /\ last.outcome = "built"
        /\ last.correspondence \subseteq correspondences
        /\ \A f \in last.fights : ~StillBuilt(f)

C18_RelevantAtBuild ==
    [][(last'.codelet = "CorrespondenceBuilder" /\ last'.stale) =>
          /\ last'.outcome # "built"
          /\ last'.fights = {}
          /\ last'.correspondence \cap (correspondences' \ correspondences)
                = {}]_vars

\* A builder run that fizzled on a mapping that is no longer relevant.
C18_Witness ==
    /\ last.codelet = "CorrespondenceBuilder"
    /\ last.stale
    /\ last.outcome = "fizzle_irrelevant"

\* C19: a strength tester's or a builder's run whose object1 is gone, or
\* whose object2 is gone without flip_object2 set and the flipped group
\* present, ends silently: no fault, no fight, no codelet posted, nothing
\* built or broken, the correspondence's strengths and level unchanged.
C19_StaleFizzle ==
    [][(/\ last'.codelet \in {"CorrespondenceStrengthTester",
                              "CorrespondenceBuilder"}
        /\ \E c \in last'.correspondence :
              TesterObjectsGone(Workspace, corr[c], last'.flip_object2)) =>
          /\ last'.outcome \in {"fizzle", "fizzle_objects"}
          /\ last'.fights = {}
          /\ last'.posted = {}
          /\ UNCHANGED BuiltStructures
          /\ corr' = corr]_vars

C21_DistinguishingGate ==
    last.codelet \in {"CorrespondenceBottomUpScout",
                      "CorrespondenceImportantObjectScout"} =>
        /\ last.outcome = "propose" =>
              \E m \in last.mappings : is_distinguishing(m)
        /\ (/\ last.mappings # {}
            /\ \A m \in last.mappings : ~is_distinguishing(m)) =>
              /\ last.outcome = "fizzle"
              /\ last.correspondence = {}

\* C23: every codelet the correspondence codelets post carries the kind tag
\* of an existing codelet kind, and the codelet a strength tester posts is of
\* the correspondence-builder kind.
C23_KindTags ==
    /\ \A cl \in coderack : cl.kind \in CodeletKinds
    /\ (last.codelet = "CorrespondenceStrengthTester"
          /\ last.outcome = "post") =>
            \A cl \in last.posted : cl.kind = "correspondence_builder"

\* C24: the correspondence a scout proposes carries at least one concept
\* mapping, also when object2 was flipped and the mappings recomputed.
C24_ProposalHasMappings ==
    (last.codelet \in {"CorrespondenceBottomUpScout",
                       "CorrespondenceImportantObjectScout"}
       /\ last.outcome = "propose") =>
        \A c \in last.correspondence : corr[c].concept_mappings # {}

(***************************************************************************)
(*                       Properties of bond.py                             *)
(***************************************************************************)

C8_LeftRightOrdered ==
    BondConstructed =>
        /\ {bond.left_object, bond.right_object}
              = {bond.from_object, bond.to_object}
        /\ bond.left_object.left_string_position
              <= bond.right_object.left_string_position

\* A bond constructed with its right endpoint passed as from_object.
C8_Witness ==
    /\ BondConstructed
    /\ bond.from_object.left_string_position
          > bond.to_object.left_string_position
    /\ bond.left_object = bond.to_object
    /\ bond.right_object = bond.from_object

\* C9: the bond's interval spans both endpoints: left_string_position is the
\* smaller of the endpoints' left positions, right_string_position the larger
\* of their right positions, and each endpoint lies inside the interval.
C9_IntervalSpansEndpoints ==
    BondConstructed =>
        /\ bond.left_string_position
              = Min(bond.from_object.left_string_position,
                    bond.to_object.left_string_position)
        /\ bond.right_string_position
              = Max(bond.from_object.right_string_position,
                    bond.to_object.right_string_position)
        /\ bond.left_string_position <= bond.right_string_position
        /\ \A o \in {bond.from_object, bond.to_object} :
              /\ bond.left_string_position <= o.left_string_position
              /\ o.right_string_position <= bond.right_string_position

\* C10: is_leftmost_in_string holds exactly when the bond's left string
\* position is 0, is_rightmost_in_string exactly when its right string
\* position is the last position, string_length - 1.
C10_EdgeChecks ==
    BondConstructed =>
        /\ is_leftmost_in_string(bond) <=> (bond.left_string_position = 0)
        /\ is_rightmost_in_string(bond, string_length) <=>
              (bond.right_string_position = string_length - 1)

\* C11: update_internal_strength sets internal_strength to round(c * f * a)
\* clamped to [0,100], with c = 1.0 for endpoints of the same kind and 0.7
\* otherwise, f = 1.0 for the letter-category facet and 0.7 otherwise, and a
\* the bond category's degree of association.
C11_InternalStrength ==
    result.method = "update_internal_strength" =>
        LET c == IF bond.from_object.kind = bond.to_object.kind
                 THEN 10 ELSE 7
            f == IF bond.bond_facet = "letter_category" THEN 10 ELSE 7
            rounded == (c * f * result.association + 50) \div 100
        IN  /\ result.outcome = "value"
            /\ result.value = Max(0, Min(100, rounded))
            /\ result.value \in 0..100

\* C12: happiness is 0 for a bond in no group and the group's total strength
\* otherwise; unhappiness is 100 minus that; both lie in [0,100].
C12_Happiness ==
    result.method \in {"happiness", "unhappiness"} =>
        LET h == IF result.group.present
                 THEN result.group.total_strength ELSE 0
        IN  /\ result.outcome = "value"
            /\ result.method = "happiness" => result.value = h
            /\ result.method = "unhappiness" => result.value = 100 - h
            /\ result.value \in 0..100

\* C13: salience is the rounded average of importance (100 for a sameness
\* bond, 50 otherwise) and unhappiness, so it lies in [0,100]; it is 100 for
\* an ungrouped sameness bond and 75 for an ungrouped directional bond.
C13_Salience ==
    result.method = "salience" =>
        LET i == IF bond.bond_category = "sameness" THEN 100 ELSE 50
            u == 100 - (IF result.group.present
                        THEN result.group.total_strength ELSE 0)
        IN  /\ result.outcome = "value"
            /\ result.value = (i + u + 1) \div 2
            /\ result.value \in 0..100
            /\ ~result.group.present =>
                  result.value = IF bond.bond_category = "sameness"
                                 THEN 100 ELSE 75

\* An end whose correspondence is incompatible with the bond: every link of
\* the relation is there.
CompleteRelation(rel) ==
    /\ rel.correspondence # None
    /\ rel.has_position_mapping
    /\ rel.other_edge # "middle"
    /\ rel.other_bond = "directed"
    /\ rel.incompatible

\* C14: get_incompatible_correspondences always returns a collection, and for
\* a bond at both edges of its string a missing relation at the left end
\* does not keep the right end's incompatible correspondence out of it.
C14_EndsIndependent ==
    result.method = "get_incompatible_correspondences" =>
        /\ result.outcome = "value"
        /\ (/\ bond.left_string_position = 0
            /\ bond.right_string_position = string_length - 1
            /\ ~CompleteRelation(result.left)
            /\ CompleteRelation(result.right)) =>
              result.right.correspondence \in result.items

\* C15: get_incompatible_bonds returns exactly the built bonds attached to
\* the bond's left_object or right_object, with no absent entry.
C15_IncompatibleBonds ==
    result.method = "get_incompatible_bonds" =>
        /\ result.outcome = "value"
        /\ result.items =
              {result.attached.left_left, result.attached.left_right,
               result.attached.right_left, result.attached.right_right}
                  \ {None}

\* C22: choose_left_neighbor returns nothing for a bond that is leftmost in
\* its string; for a bond that is not, with at least one built bond joining
\* a left neighbor to its left_object, it returns one of those bonds.
C22_ChooseLeftNeighbor ==
    result.method = "choose_left_neighbor" =>
        /\ bond.left_string_position = 0 =>
              result.outcome = "none" /\ result.items = {}
        /\ (bond.left_string_position # 0 /\ result.left_neighbors # {}) =>
              /\ result.outcome = "value"
              /\ result.items # {}
              /\ result.items \subseteq result.left_neighbors

====
